---- MODULE Spec2Model ----
(***************************************************************************)
(* tcp-navigator: the line-membership search engine (FileLoader), the      *)
(* per-connection request handler (TcpRequestHandler.handle), the listener *)
(* bind loop (TcpServer.bind_server), the start-up sequence of __main__    *)
(* and run/shutdown_server, and the reference client                      *)
(* (TcpClient.send_queries), as state machines.                            *)
(*                                                                         *)
(* Bytes are modelled over a four-letter alphabet that keeps the cases the *)
(* code distinguishes: an ordinary letter "a", the regular-expression      *)
(* anchor "^" (grep and re both read the pattern as an expression), the    *)
(* line delimiter LF and the carriage return CR (both whitespace for       *)
(* str.strip).                                                             *)
(***************************************************************************)
EXTENDS Integers, Sequences, FiniteSets, TLC

\* ------------------------------------------------------------------ bounds
MaxFileLen == 2
MaxPatternLen == 2
MaxPayloadLen == 2
MaxCalls == 2
MaxWrites == 1
NumConns == 2
MaxSends == 2
MaxInputs == 2

\* ------------------------------------------------------- program constants
\* Configuration.PORT, and the two ends of random.randint(1024, 65535).
PORT == 43223
MinPort == 1024
MaxPort == 65535
\* bind_server exits once retry_mechanism exceeds this.
RetryLimit == 5
\* The bufsize of the handler's and the client's recv(1024).
BUFSIZE == 1024

\* ------------------------------------------------------------------- bytes
LF == "\n"
CR == "\r"
Byte == {"a", "^", LF, CR}

SeqsUpTo(S, n) == UNION {[1..k -> S] : k \in 0..n}

Range(s) == {s[i] : i \in DOMAIN s}

\* The contents the target file can have.
FileContents == SeqsUpTo(Byte, MaxFileLen)

\* check_text's precondition on patterns: non-empty, no LF, no CR.
Patterns == SeqsUpTo({"a", "^"}, MaxPatternLen) \ {<<>>}

SearchAlgorithm ==
    {"LOW_LEVEL", "HIGH_LEVEL", "BRUTE_FORCE", "GREP_SEARCH", "REGEX_SEARCH"}

\* The strategies that build the line cache.
CacheAlgorithms == {"LOW_LEVEL", "HIGH_LEVEL", "BRUTE_FORCE"}

\* bytes.rstrip(chars): every trailing byte that is in chars is removed.
RECURSIVE rstrip(_, _)
rstrip(s, chars) ==
    IF s = <<>> THEN s
    ELSE IF s[Len(s)] \in chars THEN rstrip(SubSeq(s, 1, Len(s) - 1), chars)
    ELSE s

RECURSIVE lstrip(_, _)
lstrip(s, chars) ==
    IF s = <<>> THEN s
    ELSE IF s[1] \in chars THEN lstrip(Tail(s), chars)
    ELSE s

\* The whitespace of str.strip() that the alphabet holds.
SP == " "
Whitespace == {LF, CR, SP}

strip(s) == lstrip(rstrip(s, Whitespace), Whitespace)

\* Index of the first sep in s (0 when there is none).
find(s, sep) ==
    IF \E i \in 1..Len(s) : s[i] = sep
    THEN CHOOSE i \in 1..Len(s) : s[i] = sep /\ \A j \in 1..(i - 1) : s[j] # sep
    ELSE 0

\* bytes.split(sep): the segments between the separators; one more segment
\* than there are separators, so a trailing separator yields a last empty one.
RECURSIVE split(_, _)
split(s, sep) ==
    LET i == find(s, sep) IN
    IF i = 0 THEN <<s>>
    ELSE <<SubSeq(s, 1, i - 1)>> \o split(SubSeq(s, i + 1, Len(s)), sep)

\* Iterating a binary file object: the lines with their LF kept; no line
\* after a final LF, and none for an empty file.
RECURSIVE readlines(_)
readlines(s) ==
    LET i == find(s, LF) IN
    IF s = <<>> THEN <<>>
    ELSE IF i = 0 THEN <<s>>
    ELSE <<SubSeq(s, 1, i)>> \o readlines(SubSeq(s, i + 1, Len(s)))

\* --------------------------------------------------------- the line cache
\* _loaded_data: defaultdict(lambda: False): a finite map from keys to flags.
EmptyDict == [k \in {} |-> FALSE]

\* dict.update({k: True for k in keys})
update(d, keys) ==
    [k \in (DOMAIN d) \cup keys |-> IF k \in keys THEN TRUE ELSE d[k]]

\* d[k] on a defaultdict: the value read ...
getitem(d, k) == IF k \in DOMAIN d THEN d[k] ELSE FALSE

\* ... and the dict afterwards: a missing key is inserted with the default.
after_getitem(d, k) ==
    IF k \in DOMAIN d THEN d
    ELSE [x \in (DOMAIN d) \cup {k} |-> IF x = k THEN FALSE ELSE d[x]]

\* The keys the cache reports present.
TrueKeys(d) == {k \in DOMAIN d : d[k]}

\* ------------------------------------------------------ search strategies
\* The keys the two mmap strategies build: split on LF, rstrip CR.
mmap_keys(f) == {rstrip(seg, {CR}) : seg \in Range(split(f, LF))}

\* The keys the line-by-line strategy builds: rstrip CR and LF of each line.
brute_force_keys(f) == {rstrip(line, {CR, LF}) : line \in Range(readlines(f))}

\* An engine value e is [loaded_data, lru]: the cache and whether lru_cache
\* holds _low_level_search's result (the same dict object as _loaded_data).
\* Each strategy yields the engine afterwards and the exception raised.
low_level_search(e, f) ==
    IF e.lru THEN [loaded_data |-> e.loaded_data, lru |-> TRUE, raised |-> "none"]
    ELSE IF f = <<>>
    THEN [loaded_data |-> e.loaded_data, lru |-> FALSE, raised |-> "ValueError"]
    ELSE [loaded_data |-> update(e.loaded_data, mmap_keys(f)), lru |-> TRUE,
          raised |-> "none"]

high_level_search(e, f) ==
    IF f = <<>>
    THEN [loaded_data |-> e.loaded_data, lru |-> e.lru, raised |-> "ValueError"]
    ELSE [loaded_data |-> update(e.loaded_data, mmap_keys(f)), lru |-> e.lru,
          raised |-> "none"]

search_with_brute_force(e, f) ==
    [loaded_data |-> update(e.loaded_data, brute_force_keys(f)), lru |-> e.lru,
     raised |-> "none"]

\* grep reads the file as lines: the LF-terminated segments, and a last
\* unterminated one when the file does not end in LF. CR stays in the line.
grep_lines(f) == {rstrip(line, {LF}) : line \in Range(readlines(f))}

IsPrefix(p, s) == Len(p) <= Len(s) /\ SubSeq(s, 1, Len(p)) = p

IsSubstring(p, s) ==
    \E i \in 0..(Len(s) - Len(p)) : SubSeq(s, i + 1, i + Len(p)) = p

\* One basic regular expression against one line: a leading "^" anchors the
\* rest at the start of the line, any later "^" is an ordinary character.
bre_matches(re, line) ==
    IF re # <<>> /\ re[1] = "^" THEN IsPrefix(Tail(re), line)
    ELSE IsSubstring(re, line)

\* grep -q pattern file: exit status 0 iff some line matches one of the
\* LF-separated expressions of the pattern.
search_with_grep(pattern, f) ==
    \E re \in Range(split(pattern, LF)) :
        \E line \in grep_lines(f) : bre_matches(re, line)

\* re: match the expression at position pos (0-based) of the data; "^" is
\* the zero-width start-of-data assertion wherever it stands.
RECURSIVE re_match_at(_, _, _)
re_match_at(re, data, pos) ==
    IF re = <<>> THEN TRUE
    ELSE IF re[1] = "^" THEN pos = 0 /\ re_match_at(Tail(re), data, pos)
    ELSE pos < Len(data) /\ data[pos + 1] = re[1]
         /\ re_match_at(Tail(re), data, pos + 1)

\* bool(re.compile(pattern).search(file_data))
search_with_regex(pattern, f) ==
    \E pos \in 0..Len(f) : re_match_at(pattern, f, pos)

\* clear_file_data_from_memory: only a non-empty cache is cleared, and only
\* then is the lru_cache of _low_level_search cleared.
clear_file_data_from_memory(e) ==
    IF e.loaded_data # EmptyDict
    THEN [loaded_data |-> EmptyDict, lru |-> FALSE]
    ELSE e

\* A cache strategy's outcome r looked up for the pattern.
lookup(r, pattern) ==
    IF r.raised # "none"
    THEN [loaded_data |-> r.loaded_data, lru |-> r.lru,
          raised |-> r.raised, value |-> FALSE]
    ELSE [loaded_data |-> after_getitem(r.loaded_data, pattern), lru |-> r.lru,
          raised |-> "none", value |-> getitem(r.loaded_data, pattern)]

\* check_text(pattern, algorithm) on engine e with the file holding f:
\* the engine afterwards, the exception raised and the value returned.
check_text(e, f, rr, pattern, algorithm) ==
    LET c == IF rr THEN clear_file_data_from_memory(e) ELSE e IN
    CASE algorithm = "LOW_LEVEL" -> lookup(low_level_search(c, f), pattern)
      [] algorithm = "HIGH_LEVEL" -> lookup(high_level_search(c, f), pattern)
      [] algorithm = "BRUTE_FORCE" ->
            lookup(search_with_brute_force(c, f), pattern)
      [] algorithm = "GREP_SEARCH" ->
            [loaded_data |-> c.loaded_data, lru |-> c.lru, raised |-> "none",
             value |-> search_with_grep(pattern, f)]
      [] algorithm = "REGEX_SEARCH" ->
            [loaded_data |-> c.loaded_data, lru |-> c.lru, raised |-> "none",
             value |-> search_with_regex(pattern, f)]

\* -------------------------------------------------- the failure branches
\* An environment env is [readable, grep_ok]: whether the target file can be
\* opened and read, and whether the grep executable can be invoked.

\* subprocess.run(['grep', '-q', pattern, file_path]): raised when the tool
\* cannot be invoked; else grep's exit status: 0 a line matched, 1 none did,
\* 2 the file could not be read.
grep_run(env, pattern, f) ==
    IF ~env.grep_ok THEN [raised |-> TRUE, returncode |-> 0]
    ELSE IF ~env.readable THEN [raised |-> FALSE, returncode |-> 2]
    ELSE IF search_with_grep(pattern, f) THEN [raised |-> FALSE, returncode |-> 0]
    ELSE [raised |-> FALSE, returncode |-> 1]

\* A _search_with_grep that takes every status but "no match" for a match.
grep_found_unless_1(run) == ~run.raised /\ run.returncode # 1

\* _search_with_grep: found = result.returncode == 0, and False when
\* subprocess.run raised.
grep_found(run) == ~run.raised /\ run.returncode = 0

\* A check_text whose GREP_SEARCH and REGEX_SEARCH go through the line cache
\* as the other three do, leaving the pattern as a key.
check_text_in_keyed(env, e, f, rr, pattern, algorithm) ==
    LET c == IF rr THEN clear_file_data_from_memory(e) ELSE e
        ends(raised, value) ==
            [loaded_data |-> after_getitem(c.loaded_data, pattern),
             lru |-> c.lru, raised |-> raised, value |-> value]
    IN  CASE algorithm = "LOW_LEVEL" /\ ~env.readable /\ ~c.lru ->
                ends("SystemExit", FALSE)
          [] algorithm \in {"HIGH_LEVEL", "BRUTE_FORCE"} /\ ~env.readable ->
                ends("SystemExit", FALSE)
          [] algorithm = "REGEX_SEARCH" /\ ~env.readable ->
                ends("UnboundLocalError", FALSE)
          [] algorithm = "GREP_SEARCH" ->
                ends("none", grep_found(grep_run(env, pattern, f)))
          [] algorithm = "REGEX_SEARCH" ->
                ends("none", search_with_regex(pattern, f))
          [] OTHER -> check_text(e, f, rr, pattern, algorithm)

\* check_text in environment env: the cache strategies call sys.exit(-1) on
\* the OSError of an unreadable file (a memoized _low_level_search does not
\* open it), grep reports not found, and _search_with_regex, having logged
\* the OSError, returns the unassigned local file_data.
check_text_in(env, e, f, rr, pattern, algorithm) ==
    LET c == IF rr THEN clear_file_data_from_memory(e) ELSE e
        ends(raised, value) ==
            [loaded_data |-> c.loaded_data, lru |-> c.lru, raised |-> raised,
             value |-> value]
    IN  CASE algorithm = "LOW_LEVEL" /\ ~env.readable /\ ~c.lru ->
                ends("SystemExit", FALSE)
          [] algorithm \in {"HIGH_LEVEL", "BRUTE_FORCE"} /\ ~env.readable ->
                ends("SystemExit", FALSE)
          [] algorithm = "REGEX_SEARCH" /\ ~env.readable ->
                ends("UnboundLocalError", FALSE)
          [] algorithm = "GREP_SEARCH" ->
                ends("none", grep_found(grep_run(env, pattern, f)))
          [] OTHER -> check_text(e, f, rr, pattern, algorithm)

\* The call has the target file opened: by itself under HIGH_LEVEL,
\* BRUTE_FORCE and REGEX_SEARCH on every call and under LOW_LEVEL unless
\* lru_cache holds its result, by the grep process it runs under GREP_SEARCH.
opens_file(e, rr, algorithm) ==
    LET c == IF rr THEN clear_file_data_from_memory(e) ELSE e IN
    \/ algorithm \in {"HIGH_LEVEL", "BRUTE_FORCE", "REGEX_SEARCH", "GREP_SEARCH"}
    \/ algorithm = "LOW_LEVEL" /\ ~c.lru

\* The exit status of sys.exit(arg) as the parent process sees it.
exit_status(arg) == arg % 256

\* ------------------------------------------------------------------ state
VARIABLES
    file,           \* TargetFile: the bytes at file_path
    reread,         \* FileLoader._reread_on_query
    loaded_data,    \* FileLoader._loaded_data
    lru,            \* lru_cache of _low_level_search holds a result
    ret,            \* the most recent call on the engine and its outcome
    calls,          \* check_text calls made on the engine
    writes,         \* modifications made to the target file
    opens,          \* per algorithm: the times a call had the file read
    pc,             \* per connection: where its handler thread stands
    inbuf,          \* per connection: payloads sent by the peer, not yet read
    peer_closed,    \* per connection: the peer has closed its side
    query,          \* per connection: handle()'s local query
    response,       \* per connection: handle()'s local response
    out,            \* per connection: the responses written to its socket
    reads,          \* per connection: the non-empty trimmed payloads read
    found,          \* per connection: what check_text returned, in order
    sends,          \* payloads sent by all peers
    bpc,            \* bind_server: "loop" (top of the while), "bound", "exited"
    retry_mechanism,\* bind_server's local retry_mechanism
    port,           \* TcpServer.port
    server,         \* TcpServer.server: the port it listens on, 0 for None
    err,            \* the message of the exception bind_server caught last
    attempts,       \* ThreadedTcpServer constructions (bind attempts) made
    drawn,          \* random.randint calls made
    occupied,       \* the ports other listeners hold
    host_ok,        \* the configured host resolves
    patched,        \* ThreadedTcpServer is the test double of test_server.py
    fault,          \* what else the next bind attempt meets
    wrapped,        \* the listening socket is wrapped by the TLS context
    readable,       \* the target file can be opened and read
    grep_ok,        \* the grep executable can be invoked
    process,        \* the server process: "running" or "exited"
    status,         \* its exit status once exited
    main,           \* where the main thread stands in __main__
    config_file,    \* what reading the configuration file gives
    cert,           \* the certificate/key pair at the configured paths
    ssl_enabled,    \* config.SSL_ENABLED
    shutdowns,      \* calls of self.server.shutdown()
    closes,         \* calls of self.server.server_close()
    tpc,            \* per thread: where its check_text call stands
    call,           \* per thread: its check_text call and the outcome
    tkeys,          \* per thread: the keys it read and has yet to store
    seen,           \* the keys that loads of the file have produced
    cpc,            \* the client: where send_queries stands
    user_query,     \* the client: send_queries's local query
    inputs,         \* the client: input() calls that have returned
    sent,           \* the client: what it passed to connection.send, in order
    taken,          \* the client: responses of the server its recv calls took
    recvd,          \* the client: what connection.recv returned, in order
    conn_closes,    \* the client: calls of connection.close()
    ended           \* the client: how the loop of send_queries was left

engineVars == <<file, reread, loaded_data, lru, ret, calls, writes, opens>>

connVars ==
    <<pc, inbuf, peer_closed, query, response, out, reads, found, sends>>

bindVars ==
    <<bpc, retry_mechanism, port, server, err, attempts, drawn, occupied,
      host_ok, patched, fault, wrapped>>

envVars == <<readable, grep_ok>>

callVars == <<tpc, call, tkeys, seen>>

procVars == <<process, status>>

mainVars == <<main, config_file, cert, ssl_enabled, shutdowns, closes>>

clientVars ==
    <<cpc, user_query, inputs, sent, taken, recvd, conn_closes, ended>>

restVars == <<envVars, callVars, procVars, mainVars, clientVars>>

vars == <<engineVars, connVars, bindVars, restVars>>

\* The environment record the engine's operators take.
env == [readable |-> readable, grep_ok |-> grep_ok]

NoRet ==
    [algorithm |-> "none", pattern |-> <<>>, raised |-> "none", value |-> FALSE]

Conns == 1..NumConns

NoOpens == [a \in SearchAlgorithm |-> 0]

\* opens after a call that ended with raised: one more for the algorithm
\* when the call opened the file and read it through (grep: when it could be
\* run and could read the file).
counted(raised, e, rr, algorithm) ==
    IF /\ raised = "none"
       /\ opens_file(e, rr, algorithm)
       /\ algorithm = "GREP_SEARCH" => (grep_ok /\ readable)
    THEN [opens EXCEPT ![algorithm] = @ + 1]
    ELSE opens

\* No thread is inside check_text and the file has not been loaded.
NoCalls ==
    /\ tpc = [t \in Conns |-> "idle"]
    /\ call = [t \in Conns |-> NoRet]
    /\ tkeys = [t \in Conns |-> <<>>]
    /\ seen = {}

\* FileLoader.__init__
InitFileLoader ==
    /\ NoCalls
    /\ file \in FileContents
    /\ reread \in BOOLEAN
    /\ loaded_data = EmptyDict
    /\ lru = FALSE
    /\ ret = NoRet
    /\ calls = 0
    /\ writes = 0
    /\ opens = NoOpens

\* TcpClient.__init__ went through: the client holds a connection and
\* send_queries has not been called.
InitClient ==
    /\ cpc = "start"
    /\ user_query = <<>>
    /\ inputs = 0
    /\ sent = <<>>
    /\ taken = 0
    /\ recvd = <<>>
    /\ conn_closes = 0
    /\ ended = "none"

\* No connection has been accepted.
InitConns ==
    /\ InitClient
    /\ pc = [c \in Conns |-> "idle"]
    /\ inbuf = [c \in Conns |-> <<>>]
    /\ peer_closed = [c \in Conns |-> FALSE]
    /\ query = [c \in Conns |-> <<>>]
    /\ response = [c \in Conns |-> ""]
    /\ out = [c \in Conns |-> <<>>]
    /\ reads = [c \in Conns |-> <<>>]
    /\ found = [c \in Conns |-> <<>>]
    /\ sends = 0

\* The ports of the model: the configured one and the ends of the range
\* random.randint draws from (the configured port lies inside that range).
Ports == {MinPort, PORT, MaxPort}

\* str(err) of the errors a bind attempt raises, as words: the operating
\* system's EADDRINUSE and unresolvable-host errors, and the error the test
\* double of test_bind_server_socket_error raises.
AddressInUse == <<"[Errno", "98]", "Address", "already", "in", "use">>
NameNotKnown == <<"[Errno", "-2]", "Name", "or", "service", "not", "known">>
MockPortInUse == <<"Port", "in", "use">>
PermissionDenied == <<"[Errno", "13]", "Permission", "denied">>
NoAttribute == <<"object", "has", "no", "attribute">>

\* What a bind attempt can meet apart from the host and the port: nothing,
\* a bind the operating system does not permit, an attribute that is missing.
Faults == {"none", "PermissionError", "AttributeError"}

\* Configuration and TcpServer.__init__ went through and server.run() has
\* entered serve_forever.
InitServing ==
    /\ main = "run"
    /\ config_file = "ok"
    /\ cert = "ok"
    /\ ssl_enabled = FALSE
    /\ shutdowns = 0
    /\ closes = 0

\* A TcpServer that bound its configured port at the first attempt.
InitBound ==
    /\ InitServing
    /\ bpc = "bound"
    /\ retry_mechanism = 0
    /\ port = PORT
    /\ server = PORT
    /\ err = <<>>
    /\ attempts = 1
    /\ drawn = 0
    /\ occupied = {}
    /\ host_ok = TRUE
    /\ patched = FALSE
    /\ fault = "none"
    /\ wrapped = FALSE

\* A process that runs.
InitProcess == process = "running" /\ status = 0

\* The target file is readable and grep is installed.
InitEnvOk == readable = TRUE /\ grep_ok = TRUE

InitEngine ==
    InitFileLoader /\ InitConns /\ InitBound /\ InitEnvOk /\ InitProcess

\* The server process: Configuration._read_config sets REREAD_ON_QUERY False.
InitServer == InitEngine /\ ~reread

\* What an exception does to the process: SystemExit reaching the top of the
\* main thread ends the process with sys.exit's status; in any other thread
\* it ends that thread only. Other exceptions go to the caller.
exits_process(thread, raised) == thread = "main" /\ raised = "SystemExit"

\* One call file_loader.check_text(pattern, algorithm) made from a thread.
CallCheckText(thread, pattern, algorithm) ==
    /\ process = "running"
    /\ calls < MaxCalls
    /\ LET r == check_text_in(env, [loaded_data |-> loaded_data, lru |-> lru],
                              file, reread, pattern, algorithm) IN
        /\ loaded_data' = r.loaded_data
        /\ lru' = r.lru
        /\ ret' = [algorithm |-> algorithm, pattern |-> pattern,
                   raised |-> r.raised, value |-> r.value]
        /\ opens' = counted(r.raised, [loaded_data |-> loaded_data, lru |-> lru],
                             reread, algorithm)
        /\ IF exits_process(thread, r.raised)
           THEN process' = "exited" /\ status' = exit_status(-1)
           ELSE UNCHANGED procVars
    /\ calls' = calls + 1
    /\ UNCHANGED <<file, reread, writes, connVars, bindVars, envVars, callVars, clientVars, mainVars>>

\* One sequential call file_loader.check_text(pattern, algorithm).
CheckText(pattern, algorithm) == CallCheckText("main", pattern, algorithm)

\* The same call made from a thread that is not the main thread.
CheckTextInThread(pattern, algorithm) ==
    CallCheckText("worker", pattern, algorithm)

\* The owner of the target file rewrites it.
ModifyFile(f) ==
    /\ writes < MaxWrites
    /\ f # file
    /\ file' = f
    /\ writes' = writes + 1
    /\ UNCHANGED <<reread, loaded_data, lru, ret, calls, opens, connVars,
                   bindVars, restVars>>

NextEngine ==
    \/ \E p \in Patterns, a \in SearchAlgorithm : CheckText(p, a)
    \/ \E f \in FileContents : ModifyFile(f)

SpecEngine == InitEngine /\ [][NextEngine]_vars

\* --------------------------------------- the engine, target file at fault
\* The target file is removed or loses its read permission.
RemoveFile ==
    /\ process = "running"
    /\ writes < MaxWrites
    /\ readable
    /\ readable' = FALSE
    /\ writes' = writes + 1
    /\ UNCHANGED <<file, reread, loaded_data, lru, ret, calls, opens, connVars,
                   bindVars, grep_ok, callVars, clientVars, procVars, mainVars>>

\* An engine whose target file may be unreadable from the start.
InitFaults ==
    /\ InitFileLoader /\ InitConns /\ InitBound /\ InitProcess
    /\ readable \in BOOLEAN
    /\ grep_ok = TRUE

NextFaults ==
    \/ \E p \in Patterns, a \in SearchAlgorithm : CheckText(p, a)
    \/ \E p \in Patterns, a \in SearchAlgorithm : CheckTextInThread(p, a)
    \/ RemoveFile

SpecFaults == InitFaults /\ [][NextFaults]_vars

\* -------------------------------- the engine, cleared by a sequential caller
\* One sequential call file_loader.clear_file_data_from_memory().
ClearFileData ==
    /\ process = "running"
    /\ LET c == clear_file_data_from_memory(
                     [loaded_data |-> loaded_data, lru |-> lru]) IN
        /\ loaded_data' = c.loaded_data
        /\ lru' = c.lru
    /\ ret' = [algorithm |-> "clear", pattern |-> <<>>, raised |-> "none",
               value |-> FALSE]
    /\ UNCHANGED <<file, reread, calls, writes, opens, connVars, bindVars,
                   restVars>>

NextClear ==
    \/ \E p \in Patterns, a \in SearchAlgorithm : CheckText(p, a)
    \/ ClearFileData
    \/ \E f \in FileContents : ModifyFile(f)

SpecClear == InitEngine /\ [][NextClear]_vars

\* ------------------------------- the engine, called by concurrent threads
\* The handler threads share one FileLoader. A check_text call is a sequence
\* of steps of its thread; between two steps the other threads run. A step is
\* one operation on the shared state: the dict (its truth value, clear,
\* update, one item assignment, one subscription), the memo of lru_cache, the
\* file.

\* The keys of the two mmap strategies in the order of the segments.
mmap_segments(f) ==
    [i \in 1..Len(split(f, LF)) |-> rstrip(split(f, LF)[i], {CR})]

\* The keys of the line-by-line strategy in the order of the lines.
brute_force_lines(f) ==
    [i \in 1..Len(readlines(f)) |-> rstrip(readlines(f)[i], {CR, LF})]

\* The thread is not inside check_text.
Outside(t) == tpc[t] \in {"idle", "done", "raised"}

\* A thread enters check_text(pattern, algorithm) with a cache-building
\* algorithm and tests self._reread_on_query.
Begin(t, pattern, algorithm) ==
    /\ process = "running"
    /\ Outside(t)
    /\ calls < MaxCalls
    /\ calls' = calls + 1
    /\ call' = [call EXCEPT ![t] = [algorithm |-> algorithm,
                                    pattern |-> pattern,
                                    raised |-> "none", value |-> FALSE]]
    /\ tpc' = [tpc EXCEPT ![t] = IF reread THEN "test" ELSE "dispatch"]
    /\ UNCHANGED <<file, reread, loaded_data, lru, ret, writes, opens, tkeys,
                   seen, connVars, clientVars, bindVars, envVars, procVars, mainVars>>

\* clear_file_data_from_memory: "if self._loaded_data".
ClearTest(t) ==
    /\ tpc[t] = "test"
    /\ tpc' = [tpc EXCEPT ![t] =
                  IF loaded_data # EmptyDict THEN "clear" ELSE "dispatch"]
    /\ UNCHANGED <<engineVars, call, tkeys, seen, connVars, clientVars, bindVars, envVars,
                   procVars, mainVars>>

\* A clear that waits until no other thread is inside check_text.
DictClear_exclusive(t) ==
    /\ tpc[t] = "clear"
    /\ \A u \in Conns \ {t} : Outside(u)
    /\ loaded_data' = EmptyDict
    /\ tpc' = [tpc EXCEPT ![t] = "cache_clear"]
    /\ UNCHANGED <<file, reread, lru, ret, calls, writes, opens, call, tkeys,
                   seen, connVars, clientVars, bindVars, envVars, procVars, mainVars>>

\* self._loaded_data.clear()
DictClear(t) ==
    /\ tpc[t] = "clear"
    /\ loaded_data' = EmptyDict
    /\ tpc' = [tpc EXCEPT ![t] = "cache_clear"]
    /\ UNCHANGED <<file, reread, lru, ret, calls, writes, opens, call, tkeys,
                   seen, connVars, clientVars, bindVars, envVars, procVars, mainVars>>

\* self._low_level_search.cache_clear()
CacheClear(t) ==
    /\ tpc[t] = "cache_clear"
    /\ lru' = FALSE
    /\ tpc' = [tpc EXCEPT ![t] = "dispatch"]
    /\ UNCHANGED <<file, reread, loaded_data, ret, calls, writes, opens, call,
                   tkeys, seen, connVars, clientVars, bindVars, envVars, procVars,
                   mainVars>>

\* The match statement calls the strategy; the lru_cache wrapper of
\* _low_level_search returns the memoized dict when it holds one.
Dispatch(t) ==
    /\ tpc[t] = "dispatch"
    /\ tpc' = [tpc EXCEPT ![t] =
                  IF call[t].algorithm = "LOW_LEVEL" /\ lru THEN "lookup"
                  ELSE "read"]
    /\ UNCHANGED <<engineVars, call, tkeys, seen, connVars, clientVars, bindVars, envVars,
                   procVars, mainVars>>

\* The call ends with an exception in its thread.
Raises(t, exception) ==
    /\ tpc' = [tpc EXCEPT ![t] = "raised"]
    /\ call' = [call EXCEPT ![t].raised = exception]
    /\ UNCHANGED <<tkeys, seen, opens>>

\* The strategy opens the file and reads it: an unreadable file is answered
\* with sys.exit(-1), which ends the thread; mmap raises ValueError on a file
\* of zero length; else the keys are built from the content read.
Read(t) ==
    /\ tpc[t] = "read"
    /\ LET a == call[t].algorithm
           keys == IF a = "BRUTE_FORCE" THEN brute_force_lines(file)
                   ELSE mmap_segments(file)
       IN  IF ~readable THEN Raises(t, "SystemExit")
           ELSE IF a # "BRUTE_FORCE" /\ file = <<>> THEN Raises(t, "ValueError")
           ELSE /\ tkeys' = [tkeys EXCEPT ![t] = keys]
                /\ seen' = seen \cup Range(keys)
                /\ opens' = [opens EXCEPT ![a] = @ + 1]
                /\ call' = call
                /\ tpc' = [tpc EXCEPT ![t] =
                              IF a # "BRUTE_FORCE" THEN "update"
                              ELSE IF keys = <<>> THEN "lookup"
                              ELSE "insert"]
    /\ UNCHANGED <<file, reread, loaded_data, lru, ret, calls, writes,
                   connVars, clientVars, bindVars, envVars, procVars, mainVars>>

\* self._loaded_data.update({...}) of the two mmap strategies.
Update(t) ==
    /\ tpc[t] = "update"
    /\ loaded_data' = update(loaded_data, Range(tkeys[t]))
    /\ tkeys' = [tkeys EXCEPT ![t] = <<>>]
    /\ tpc' = [tpc EXCEPT ![t] =
                  IF call[t].algorithm = "LOW_LEVEL" THEN "memoize"
                  ELSE "lookup"]
    /\ UNCHANGED <<file, reread, lru, ret, calls, writes, opens, call, seen,
                   connVars, clientVars, bindVars, envVars, procVars, mainVars>>

\* _low_level_search returns and lru_cache stores its result.
Memoize(t) ==
    /\ tpc[t] = "memoize"
    /\ lru' = TRUE
    /\ tpc' = [tpc EXCEPT ![t] = "lookup"]
    /\ UNCHANGED <<file, reread, loaded_data, ret, calls, writes, opens, call,
                   tkeys, seen, connVars, clientVars, bindVars, envVars, procVars,
                   mainVars>>

\* self._loaded_data[line.rstrip(b"\r\n")] = True for the next line.
InsertLine(t) ==
    /\ tpc[t] = "insert"
    /\ loaded_data' = update(loaded_data, {Head(tkeys[t])})
    /\ tkeys' = [tkeys EXCEPT ![t] = Tail(@)]
    /\ tpc' = [tpc EXCEPT ![t] =
                  IF Tail(tkeys[t]) = <<>> THEN "lookup" ELSE "insert"]
    /\ UNCHANGED <<file, reread, lru, ret, calls, writes, opens, call, seen,
                   connVars, clientVars, bindVars, envVars, procVars, mainVars>>

\* The call returns value.
Returns(t, value) ==
    /\ tpc' = [tpc EXCEPT ![t] = "done"]
    /\ call' = [call EXCEPT ![t].value = value]

\* The subscription [pattern] of the dict the strategy returned: a key that
\* is there gives its flag; for one that is not, defaultdict.__missing__
\* calls the default factory, a Python function.
Lookup(t) ==
    /\ tpc[t] = "lookup"
    /\ IF call[t].pattern \in DOMAIN loaded_data
       THEN Returns(t, loaded_data[call[t].pattern])
       ELSE tpc' = [tpc EXCEPT ![t] = "missing"] /\ call' = call
    /\ UNCHANGED <<engineVars, tkeys, seen, connVars, clientVars, bindVars, envVars,
                   procVars, mainVars>>

\* A __missing__ whose factory gives True.
Missing_marks_present(t) ==
    /\ tpc[t] = "missing"
    /\ loaded_data' =
           [k \in (DOMAIN loaded_data) \cup {call[t].pattern} |->
               IF k = call[t].pattern THEN TRUE ELSE loaded_data[k]]
    /\ Returns(t, TRUE)
    /\ UNCHANGED <<file, reread, lru, ret, calls, writes, opens, tkeys, seen,
                   connVars, clientVars, bindVars, envVars, procVars, mainVars>>

\* __missing__ stores the factory's False under the key and returns it.
Missing(t) ==
    /\ tpc[t] = "missing"
    /\ loaded_data' =
           [k \in (DOMAIN loaded_data) \cup {call[t].pattern} |->
               IF k = call[t].pattern THEN FALSE ELSE loaded_data[k]]
    /\ Returns(t, FALSE)
    /\ UNCHANGED <<file, reread, lru, ret, calls, writes, opens, tkeys, seen,
                   connVars, clientVars, bindVars, envVars, procVars, mainVars>>

\* One step of a thread inside check_text.
Step(t) ==
    \/ ClearTest(t)
    \/ DictClear(t)
    \/ CacheClear(t)
    \/ Dispatch(t)
    \/ Read(t)
    \/ Update(t)
    \/ Memoize(t)
    \/ InsertLine(t)
    \/ Lookup(t)
    \/ Missing(t)

\* The threads call check_text with cache-building algorithms.
NextThreads ==
    \E t \in Conns :
        \/ \E p \in Patterns, a \in CacheAlgorithms : Begin(t, p, a)
        \/ Step(t)

\* Concurrent calls on one engine, an unchanging target file.
SpecThreads == InitEngine /\ [][NextThreads]_vars

\* Patterns of one byte: a letter and a metacharacter.
SamplePatterns == {<<"a">>, <<"^">>}

\* Concurrent calls on one engine while the owner of the target file
\* rewrites it.
NextRace ==
    \/ \E t \in Conns :
           \/ \E p \in SamplePatterns, a \in CacheAlgorithms : Begin(t, p, a)
           \/ Step(t)
    \/ \E f \in FileContents : ModifyFile(f)

SpecRace == InitEngine /\ [][NextRace]_vars

\* What a peer can send in one piece: non-empty ASCII bytes. CR is left out:
\* for the handler it is whitespace exactly as LF is.
Payloads == SeqsUpTo({"a", "^", LF}, MaxPayloadLen) \ {<<>>}

\* A byte that is not valid UTF-8, and a payload made of it.
InvalidByte == "0xFF"
Undecodable == <<InvalidByte>>

\* bytes.decode("utf-8") succeeds.
decodable(data) == InvalidByte \notin Range(data)

\* Three payloads that stand for the kinds the handler tells apart: a query
\* of a letter, a query of a metacharacter, and a blank payload.
SamplePayloads == {<<"a">>, <<"^">>, <<LF>>}

STRING_EXISTS == "STRING EXISTS\n"
STRING_NOT_FOUND == "STRING NOT FOUND\n"

\* The responses without their line terminator.
response_unterminated(value) ==
    IF value THEN "STRING EXISTS" ELSE "STRING NOT FOUND"

\* handle(): the response chosen from check_text's return value.
response_for(value) == IF value THEN STRING_EXISTS ELSE STRING_NOT_FOUND

\* check_text's default algorithm, the one handle() gets.
DefaultAlgorithm == "GREP_SEARCH"

\* ThreadingMixIn: the accept loop of serve_forever takes the connections one
\* after another and starts a handler thread for each.
Accept(c) ==
    /\ main = "run"
    /\ pc[c] = "idle"
    /\ \A d \in 1..(c - 1) : pc[d] # "idle"
    /\ pc' = [pc EXCEPT ![c] = "recv"]
    /\ UNCHANGED <<restVars, bindVars, engineVars, inbuf, peer_closed, query, response, out,
                   reads, found, sends>>

\* The peer sends a payload.
PeerSend(c, payload) ==
    /\ pc[c] # "idle"
    /\ ~peer_closed[c]
    /\ sends < MaxSends
    /\ inbuf' = [inbuf EXCEPT ![c] = Append(@, payload)]
    /\ sends' = sends + 1
    /\ UNCHANGED <<restVars, bindVars, engineVars, pc, peer_closed, query, response, out, reads,
                   found>>

\* The peer sends bytes that are not UTF-8.
PeerSendUndecodable(c) ==
    /\ pc[c] # "idle"
    /\ ~peer_closed[c]
    /\ sends < MaxSends
    /\ inbuf' = [inbuf EXCEPT ![c] = Append(@, Undecodable)]
    /\ sends' = sends + 1
    /\ UNCHANGED <<restVars, bindVars, engineVars, pc, peer_closed, query,
                   response, out, reads, found>>

\* The peer closes its side of the connection.
PeerClose(c) ==
    /\ pc[c] # "idle"
    /\ ~peer_closed[c]
    /\ peer_closed' = [peer_closed EXCEPT ![c] = TRUE]
    /\ UNCHANGED <<restVars, bindVars, engineVars, pc, inbuf, query, response, out, reads, found,
                   sends>>

\* socket.recv(bufsize) on the bytes that wait: at most bufsize of them.
recv(data, bufsize) ==
    IF Len(data) > bufsize THEN SubSeq(data, 1, bufsize) ELSE data

\* query = self.request.recv(1024).decode("utf-8").strip(), then the test
\* "if not query: break": data is what recv returned (empty at end of stream).
Received(c, data) ==
    LET q == strip(data) IN
    /\ query' = [query EXCEPT ![c] = q]
    /\ IF q = <<>>
       THEN /\ pc' = [pc EXCEPT ![c] = "closed"]
            /\ UNCHANGED reads
       ELSE /\ pc' = [pc EXCEPT ![c] = "check"]
            /\ reads' = [reads EXCEPT ![c] = Append(@, q)]

\* recv returns the next payload. When decode raises UnicodeDecodeError no
\* except clause of handle() takes it: the exception leaves handle() and the
\* socketserver thread closes the connection.
Recv(c) ==
    /\ pc[c] = "recv"
    /\ inbuf[c] # <<>>
    /\ IF decodable(recv(Head(inbuf[c]), BUFSIZE))
       THEN Received(c, recv(Head(inbuf[c]), BUFSIZE))
       ELSE pc' = [pc EXCEPT ![c] = "raised"] /\ UNCHANGED <<query, reads>>
    /\ inbuf' = [inbuf EXCEPT ![c] =
                    IF Len(Head(@)) > BUFSIZE
                    THEN <<SubSeq(Head(@), BUFSIZE + 1, Len(Head(@)))>> \o Tail(@)
                    ELSE Tail(@)]
    /\ UNCHANGED <<restVars, bindVars, engineVars, peer_closed, response, out, found, sends>>

\* recv returns b"": the peer has closed and nothing is left to read.
RecvEof(c) ==
    /\ pc[c] = "recv"
    /\ inbuf[c] = <<>>
    /\ peer_closed[c]
    /\ Received(c, <<>>)
    /\ UNCHANGED <<restVars, bindVars, engineVars, inbuf, peer_closed, response, out, found, sends>>

\* file_loader.check_text(query.encode()) and the choice of the response.
Check(c) ==
    /\ pc[c] = "check"
    /\ LET r == check_text_in(env, [loaded_data |-> loaded_data, lru |-> lru],
                              file, reread, query[c], DefaultAlgorithm) IN
        /\ loaded_data' = r.loaded_data
        /\ lru' = r.lru
        /\ response' = [response EXCEPT ![c] = response_for(r.value)]
        /\ found' = [found EXCEPT ![c] = Append(@, r.value)]
        /\ opens' = counted(r.raised, [loaded_data |-> loaded_data, lru |-> lru],
                             reread, DefaultAlgorithm)
    /\ pc' = [pc EXCEPT ![c] = "send"]
    /\ UNCHANGED <<restVars, bindVars, file, reread, ret, calls, writes, inbuf,
                   peer_closed, query, out, reads, sends>>

\* self.request.sendall(response.encode("utf-8")), then the loop reads again.
Send(c) ==
    /\ pc[c] = "send"
    /\ out' = [out EXCEPT ![c] = Append(@, response[c])]
    /\ pc' = [pc EXCEPT ![c] = "recv"]
    /\ UNCHANGED <<restVars, bindVars, engineVars, inbuf, peer_closed, query, response, reads,
                   found, sends>>

\* A socket error that takes every handler thread down with it.
SocketError_crashes(c) ==
    /\ pc[c] \in {"recv", "send"}
    /\ pc' = [d \in Conns |-> IF pc[d] = "idle" THEN "idle" ELSE "error"]
    /\ UNCHANGED <<restVars, bindVars, engineVars, inbuf, peer_closed, query, response, out, reads,
                   found, sends>>

\* recv or sendall raises socket.error: logged, and handle() returns.
SocketError(c) ==
    /\ pc[c] \in {"recv", "send"}
    /\ pc' = [pc EXCEPT ![c] = "error"]
    /\ UNCHANGED <<restVars, bindVars, engineVars, inbuf, peer_closed, query, response, out, reads,
                   found, sends>>

NextServer ==
    \E c \in Conns :
        \/ Accept(c)
        \/ \E payload \in Payloads : PeerSend(c, payload)
        \/ PeerClose(c)
        \/ Recv(c)
        \/ RecvEof(c)
        \/ Check(c)
        \/ Send(c)
        \/ SocketError(c)

\* One server, one shared engine, an unchanging target file.
SpecServer == InitServer /\ [][NextServer]_vars

\* ------------------------------------- one handler, environment at fault
\* The server process in an environment where the target file may be
\* unreadable and grep may be missing, and a peer that may send bytes that
\* are not UTF-8.
InitTool ==
    /\ InitFileLoader /\ reread = FALSE
    /\ InitConns /\ InitBound /\ InitProcess
    /\ readable \in BOOLEAN
    /\ grep_ok \in BOOLEAN

\* The first connection and its handler thread.
NextTool ==
    \/ Accept(1)
    \/ \E payload \in SamplePayloads : PeerSend(1, payload)
    \/ PeerSendUndecodable(1)
    \/ PeerClose(1)
    \/ Recv(1)
    \/ RecvEof(1)
    \/ Check(1)
    \/ Send(1)
    \/ SocketError(1)

SpecTool == InitTool /\ [][NextTool]_vars

\* The handler thread is scheduled: each of its steps is taken when it stays
\* possible (the peer and the socket's failures are under no obligation).
SpecToolFair ==
    /\ SpecTool
    /\ WF_vars(Recv(1))
    /\ WF_vars(RecvEof(1))
    /\ WF_vars(Check(1))
    /\ WF_vars(Send(1))

\* ------------------------------------------------- the reference client
\* TcpClient.send_queries on the connection the first handler serves.

\* The two words send_queries compares the query with.
Quit == <<"q", "u", "i", "t">>
Exit == <<"e", "x", "i", "t">>
\* The word its documentation names next to 'quit'.
Stop == <<"s", "t", "o", "p">>

\* A query one byte longer than one recv of the handler takes.
LongQuery == [i \in 1..(BUFSIZE + 1) |-> "a"]

\* What the user can type at the prompt: nothing, a blank, a query, a query
\* with a blank before it, a query of one non-ASCII letter, the three words
\* in lower and upper case, and a long query.
UserInputs ==
    {<<>>, <<SP>>, <<"a">>, <<SP, "a">>, <<"é">>, Quit, Exit, Stop,
     <<"Q", "U", "I", "T">>, LongQuery}

\* str.lower() on the letters of the alphabet.
lower(s) ==
    [i \in DOMAIN s |->
        CASE s[i] = "Q" -> "q"
          [] s[i] = "U" -> "u"
          [] s[i] = "I" -> "i"
          [] s[i] = "T" -> "t"
          [] OTHER -> s[i]]

\* The UTF-8 encoding of one character.
utf8(ch) == IF ch = "é" THEN <<"0xC3", "0xA9">> ELSE <<ch>>

\* str.encode("utf-8"): the encodings of the characters, in order; one byte
\* for each character when every character encodes to one byte.
RECURSIVE encode(_)
encode(s) ==
    IF \A i \in DOMAIN s : Len(utf8(s[i])) = 1
    THEN [i \in DOMAIN s |-> utf8(s[i])[1]]
    ELSE utf8(Head(s)) \o encode(Tail(s))

\* The handler of the client's connection has returned, and socketserver has
\* closed the connection.
ServerClosed == pc[1] \in {"closed", "error", "raised"}

\* send_queries is called and enters its loop.
SendQueries ==
    /\ cpc = "start"
    /\ cpc' = "input"
    /\ UNCHANGED <<user_query, inputs, sent, taken, recvd, conn_closes, ended,
                   engineVars, connVars, bindVars, envVars, callVars,
                   procVars, mainVars>>

\* query = input(...).strip(); "quit" and "exit" in any case end the loop, an
\* empty query is answered with a warning, any other query is submitted.
Input(line) ==
    /\ cpc = "input"
    /\ inputs < MaxInputs
    /\ inputs' = inputs + 1
    /\ user_query' = strip(line)
    /\ IF lower(strip(line)) \in {Quit, Exit}
       THEN cpc' = "finally" /\ ended' = "break"
       ELSE /\ cpc' = (IF strip(line) # <<>> THEN "send" ELSE "input")
            /\ UNCHANGED ended
    /\ UNCHANGED <<sent, taken, recvd, conn_closes, engineVars, connVars,
                   bindVars, envVars, callVars, procVars, mainVars>>

\* input() at the end of standard input raises EOFError, which no except
\* clause of send_queries takes.
InputEof ==
    /\ cpc = "input"
    /\ cpc' = "finally"
    /\ ended' = "EOFError"
    /\ UNCHANGED <<user_query, inputs, sent, taken, recvd, conn_closes,
                   engineVars, connVars, bindVars, envVars, callVars,
                   procVars, mainVars>>

\* The user interrupts the client inside the loop: except KeyboardInterrupt.
KeyboardInterrupt ==
    /\ cpc \in {"input", "send", "recv"}
    /\ cpc' = "finally"
    /\ ended' = "KeyboardInterrupt"
    /\ UNCHANGED <<user_query, inputs, sent, taken, recvd, conn_closes,
                   engineVars, connVars, bindVars, envVars, callVars,
                   procVars, mainVars>>

\* self.connection.send(query.encode("utf-8"))
ClientSend ==
    /\ cpc = "send"
    /\ sent' = Append(sent, encode(user_query))
    /\ inbuf' = [inbuf EXCEPT ![1] = Append(@, encode(user_query))]
    /\ cpc' = "recv"
    /\ UNCHANGED <<user_query, inputs, taken, recvd, conn_closes, ended, pc,
                   peer_closed, query, response, out, reads, found, sends,
                   engineVars, bindVars, envVars, callVars, procVars, mainVars>>

\* send or recv raises socket.error, which no except clause of send_queries
\* takes.
ClientSocketError ==
    /\ cpc \in {"send", "recv"}
    /\ cpc' = "finally"
    /\ ended' = "OSError"
    /\ UNCHANGED <<user_query, inputs, sent, taken, recvd, conn_closes,
                   engineVars, connVars, bindVars, envVars, callVars,
                   procVars, mainVars>>

\* self.connection.recv(1024) returns the bytes that wait: the responses the
\* handler has written and the client has not taken, the first of them or
\* more when more have arrived.
ClientRecv ==
    /\ cpc = "recv"
    /\ taken < Len(out[1])
    /\ \E upto \in (taken + 1)..Len(out[1]) :
          /\ recvd' = Append(recvd, SubSeq(out[1], taken + 1, upto))
          /\ taken' = upto
    /\ cpc' = "input"
    /\ UNCHANGED <<user_query, inputs, sent, conn_closes, ended, engineVars,
                   connVars, bindVars, envVars, callVars, procVars, mainVars>>

\* recv returns b"": the server has closed the connection and nothing waits.
ClientRecvEof ==
    /\ cpc = "recv"
    /\ taken = Len(out[1])
    /\ ServerClosed
    /\ recvd' = Append(recvd, <<>>)
    /\ cpc' = "input"
    /\ UNCHANGED <<user_query, inputs, sent, taken, conn_closes, ended,
                   engineVars, connVars, bindVars, envVars, callVars,
                   procVars, mainVars>>

\* A close_connection that runs after a break only.
CloseConnection_on_break ==
    /\ cpc = "finally"
    /\ conn_closes' = (IF ended = "break" THEN conn_closes + 1 ELSE conn_closes)
    /\ peer_closed' = [peer_closed EXCEPT ![1] = TRUE]
    /\ cpc' = (IF ended \in {"break", "KeyboardInterrupt"}
               THEN "returned" ELSE "raised")
    /\ UNCHANGED <<user_query, inputs, sent, taken, recvd, ended, pc, inbuf,
                   query, response, out, reads, found, sends, engineVars,
                   bindVars, envVars, callVars, procVars, mainVars>>

\* finally: self.close_connection(); then send_queries returns, or the
\* exception no except clause took goes on to the caller.
CloseConnection ==
    /\ cpc = "finally"
    /\ conn_closes' = conn_closes + 1
    /\ peer_closed' = [peer_closed EXCEPT ![1] = TRUE]
    /\ cpc' = (IF ended \in {"break", "KeyboardInterrupt"}
               THEN "returned" ELSE "raised")
    /\ UNCHANGED <<user_query, inputs, sent, taken, recvd, ended, pc, inbuf,
                   query, response, out, reads, found, sends, engineVars,
                   bindVars, envVars, callVars, procVars, mainVars>>

\* A server that was started on a file holding the line "a", and a client
\* that has connected to it.
InitPair == InitServer /\ file = <<"a">>

\* The client, and the handler thread of its connection.
NextPair ==
    \/ SendQueries
    \/ \E line \in UserInputs : Input(line)
    \/ InputEof
    \/ KeyboardInterrupt
    \/ ClientSend
    \/ ClientSocketError
    \/ ClientRecv
    \/ ClientRecvEof
    \/ CloseConnection
    \/ Accept(1)
    \/ Recv(1)
    \/ RecvEof(1)
    \/ Check(1)
    \/ Send(1)
    \/ SocketError(1)

SpecPair == InitPair /\ [][NextPair]_vars

\* The client's thread and the handler's thread are scheduled, and the user
\* goes on typing; interrupts, the end of input and socket errors are under
\* no obligation.
SpecPairFair ==
    /\ SpecPair
    /\ WF_vars(SendQueries)
    /\ WF_vars(ClientSend)
    /\ WF_vars(ClientRecv)
    /\ WF_vars(ClientRecvEof)
    /\ WF_vars(CloseConnection)
    /\ WF_vars(Accept(1))
    /\ WF_vars(Recv(1))
    /\ WF_vars(RecvEof(1))
    /\ WF_vars(Check(1))
    /\ WF_vars(Send(1))

\* ---------------------------------------------------------- the bind loop
\* The exit status of a process whose main thread ends on an exception
\* nobody caught.
UncaughtStatus == 1

\* The main thread leaves with this exit status.
Exits(code) ==
    /\ main' = "exited"
    /\ process' = "exited"
    /\ status' = code

\* TcpServer.__init__ up to the call of bind_server, in some environment.
InitBind ==
    /\ bpc = "loop"
    /\ retry_mechanism = 0
    /\ port = PORT
    /\ server = 0
    /\ err = <<>>
    /\ attempts = 0
    /\ drawn = 0
    /\ occupied \in SUBSET Ports
    /\ host_ok \in BOOLEAN
    /\ patched \in BOOLEAN
    /\ fault \in Faults
    /\ wrapped = FALSE
    /\ InitConns
    /\ file = <<>>
    /\ reread = FALSE
    /\ loaded_data = EmptyDict
    /\ lru = FALSE
    /\ ret = NoRet
    /\ calls = 0
    /\ writes = 0
    /\ opens = NoOpens
    /\ NoCalls
    /\ InitEnvOk
    /\ InitProcess
    /\ main = "bind_server"
    /\ config_file = "ok"
    /\ cert = "ok"
    /\ ssl_enabled \in BOOLEAN
    /\ shutdowns = 0
    /\ closes = 0

\* What ThreadedTcpServer((host, port), ...) raises: <<>> when it binds.
bind_error(p) ==
    IF patched THEN MockPortInUse
    ELSE IF fault = "AttributeError" THEN NoAttribute
    ELSE IF ~host_ok THEN NameNotKnown
    ELSE IF fault = "PermissionError" THEN PermissionDenied
    ELSE IF p \in occupied THEN AddressInUse
    ELSE <<>>

\* "Port in use" in str(err)
port_in_use_in(message) == IsSubstring(<<"Port", "in", "use">>, message)

\* The loop body when the attempt binds: self.server is set, its socket is
\* wrapped by the TLS context if self._ssl_enabled, break.
BindSucceeds ==
    /\ bpc = "loop"
    /\ retry_mechanism <= RetryLimit
    /\ bind_error(port) = <<>>
    /\ attempts' = attempts + 1
    /\ server' = port
    /\ wrapped' = ssl_enabled
    /\ bpc' = "bound"
    /\ UNCHANGED <<retry_mechanism, port, err, drawn, occupied, host_ok,
                   patched, fault, engineVars, connVars, restVars>>

\* The exception is a socket.error (OSError), not an AttributeError.
is_socket_error(message) == message # NoAttribute

\* A loop body that retries a failure of another kind without counting it.
BindFails_uncounted ==
    /\ bpc = "loop"
    /\ retry_mechanism <= RetryLimit
    /\ bind_error(port) # <<>>
    /\ attempts' = attempts + 1
    /\ err' = bind_error(port)
    /\ IF is_socket_error(bind_error(port)) /\ port_in_use_in(bind_error(port))
       THEN /\ port' \in Ports
            /\ drawn' = drawn + 1
            /\ retry_mechanism' = retry_mechanism + 1
       ELSE UNCHANGED <<port, drawn, retry_mechanism>>
    /\ fault' \in Faults
    /\ UNCHANGED <<bpc, server, occupied, host_ok, patched, wrapped,
                   engineVars, connVars, restVars>>

\* The loop body when the attempt raises socket.error or AttributeError: both
\* are logged; after a socket.error the port is redrawn only if the message
\* holds "Port in use"; then retry_mechanism += 1. What the next attempt
\* meets is up to the environment.
BindFails ==
    /\ bpc = "loop"
    /\ retry_mechanism <= RetryLimit
    /\ bind_error(port) # <<>>
    /\ attempts' = attempts + 1
    /\ err' = bind_error(port)
    /\ IF is_socket_error(bind_error(port)) /\ port_in_use_in(bind_error(port))
       THEN /\ port' \in Ports
            /\ drawn' = drawn + 1
       ELSE UNCHANGED <<port, drawn>>
    /\ retry_mechanism' = retry_mechanism + 1
    /\ fault' \in Faults
    /\ UNCHANGED <<bpc, server, occupied, host_ok, patched, wrapped,
                   engineVars, connVars, restVars>>

\* if retry_mechanism > 5: sys.exit(-1)
BindGivesUp ==
    /\ bpc = "loop"
    /\ retry_mechanism > RetryLimit
    /\ bpc' = "exited"
    /\ Exits(exit_status(-1))
    /\ UNCHANGED <<retry_mechanism, port, server, err, attempts, drawn,
                   occupied, host_ok, patched, fault, wrapped, engineVars, connVars,
                   envVars, callVars, clientVars, config_file, cert, ssl_enabled, shutdowns, closes>>

NextBind == BindSucceeds \/ BindFails \/ BindGivesUp

SpecBind == InitBind /\ [][NextBind]_vars

\* The main thread goes on running through the loop.
SpecBindFair == SpecBind /\ WF_vars(NextBind)

\* ------------------------------------------------- run and shutdown_server
\* The operator's interrupt: KeyboardInterrupt leaves serve_forever, run()
\* logs it and its finally clause calls shutdown_server.
Interrupt ==
    /\ main = "run"
    /\ main' = "shutdown_server"
    /\ UNCHANGED <<procVars, config_file, cert, ssl_enabled, shutdowns, closes, envVars, callVars, clientVars,
                   engineVars, connVars, bindVars>>

\* A shutdown_server that closes the server without shutting it down.
ShutdownServer_without_shutdown ==
    /\ main = "shutdown_server"
    /\ main' = (IF server # 0 THEN "server_close" ELSE "returned")
    /\ UNCHANGED <<procVars, config_file, cert, ssl_enabled, shutdowns, closes, envVars, callVars, clientVars,
                   engineVars, connVars, bindVars>>

\* shutdown_server: "if self.server: self.server.shutdown()". serve_forever
\* has returned, so shutdown() does not wait.
ShutdownServer ==
    /\ main = "shutdown_server"
    /\ IF server # 0
       THEN shutdowns' = shutdowns + 1 /\ main' = "server_close"
       ELSE UNCHANGED shutdowns /\ main' = "returned"
    /\ UNCHANGED <<procVars, config_file, cert, ssl_enabled, closes, envVars, callVars, clientVars, engineVars,
                   connVars, bindVars>>

\* self.server.server_close(): the listening socket is closed, then
\* ThreadingMixIn waits for the handler threads.
ServerClose ==
    /\ main = "server_close"
    /\ closes' = closes + 1
    /\ main' = "join"
    /\ UNCHANGED <<procVars, config_file, cert, ssl_enabled, shutdowns, envVars, callVars, clientVars,
                   engineVars, connVars, bindVars>>

\* Every handler thread has returned: server_close, shutdown_server and
\* run() return, __main__ ends.
JoinThreads ==
    /\ main = "join"
    /\ \A c \in Conns : pc[c] \in {"idle", "closed", "error", "raised"}
    /\ Exits(0)
    /\ UNCHANGED <<config_file, cert, ssl_enabled, shutdowns, closes, envVars, callVars, clientVars, engineVars,
                   connVars, bindVars>>

\* A bound server that serves a target file of one line; its peers query
\* that line.
InitRun == InitServer /\ file = <<"a">>

NextRun ==
    \/ \E c \in Conns :
           \/ Accept(c)
           \/ PeerSend(c, <<"a">>)
           \/ PeerClose(c)
           \/ Recv(c)
           \/ RecvEof(c)
           \/ Check(c)
           \/ Send(c)
           \/ SocketError(c)
    \/ Interrupt
    \/ ShutdownServer
    \/ ServerClose
    \/ JoinThreads

\* The main thread goes on running through run()'s finally clause.
SpecRun ==
    /\ InitRun
    /\ [][NextRun]_vars
    /\ WF_vars(ShutdownServer)
    /\ WF_vars(ServerClose)

\* The listening socket is open.
Listening == server # 0 /\ closes = 0

\* C16: after the interrupt, shutdown() and then server_close() are called
\* once each on the bound server, in that order; from the interrupt on no
\* connection is accepted; the listening socket is eventually released; the
\* steps of the shutdown change no handler's state. shutdown_server on a
\* TcpServer without a server calls neither.
C16_ShutdownOnceThenClose ==
    /\ [](/\ shutdowns <= 1
          /\ closes <= shutdowns
          /\ main = "server_close" => (shutdowns = 1 /\ closes = 0)
          /\ main \in {"join", "exited"} => (shutdowns = 1 /\ closes = 1 /\ ~Listening)
          /\ main = "run" => (shutdowns = 0 /\ Listening))
    /\ [][/\ main # "run" => \A c \in Conns : pc[c] = "idle" => pc'[c] = "idle"
          /\ main' # main => UNCHANGED connVars
          /\ (main = "shutdown_server" /\ server = 0)
                => (shutdowns' = shutdowns /\ closes' = closes)]_vars
    /\ (main = "shutdown_server" ~> ~Listening)

\* C16's case: the server was shut down and closed, in that order, while a
\* handler that was accepted before is still about to write its response.
C16_Witness ==
    /\ main = "join"
    /\ shutdowns = 1
    /\ closes = 1
    /\ pc[1] = "send"
    /\ pc[2] = "idle"

\* ------------------------------------------------------------- start-up
\* __main__: Configuration(), FileLoader(config), load_buffer() unless
\* REREAD_ON_QUERY, TcpServer(config, file_loader) with its bind loop.

\* The environment and the settings start-up meets. The port, the retry
\* counter and the attempts are those of a TcpServer not yet constructed.
InitMain ==
    /\ main = "Configuration"
    /\ config_file \in {"ok", "NoOptionError", "NoSectionError"}
    /\ cert \in {"ok", "missing", "invalid"}
    /\ ssl_enabled \in BOOLEAN
    /\ reread \in BOOLEAN
    /\ shutdowns = 0
    /\ closes = 0
    /\ bpc = "unbound"
    /\ retry_mechanism = 0
    /\ port = PORT
    /\ server = 0
    /\ err = <<>>
    /\ attempts = 0
    /\ drawn = 0
    /\ occupied \in SUBSET Ports
    /\ host_ok \in BOOLEAN
    /\ patched \in BOOLEAN
    /\ fault \in Faults
    /\ wrapped = FALSE
    /\ InitConns
    /\ file = <<>>
    /\ loaded_data = EmptyDict
    /\ lru = FALSE
    /\ ret = NoRet
    /\ calls = 0
    /\ writes = 0
    /\ opens = NoOpens
    /\ NoCalls
    /\ InitEnvOk
    /\ InitProcess

\* A Configuration that goes on without the file path when it is missing.
ReadConfig_goes_on ==
    /\ main = "Configuration"
    /\ main' = "FileLoader"
    /\ UNCHANGED <<process, status, config_file, cert, ssl_enabled, shutdowns, closes,
                   envVars, callVars, clientVars, engineVars, connVars, bindVars>>

\* Configuration.__init__: _read_config; NoOptionError and NoSectionError are
\* logged and answered with sys.exit(-1).
ReadConfig ==
    /\ main = "Configuration"
    /\ IF config_file = "ok"
       THEN main' = "FileLoader" /\ UNCHANGED procVars
       ELSE Exits(exit_status(-1))
    /\ UNCHANGED <<config_file, cert, ssl_enabled, shutdowns, closes, envVars, callVars, clientVars, engineVars,
                   connVars, bindVars>>

\* FileLoader.__init__, and __main__'s test of config.REREAD_ON_QUERY.
NewFileLoader ==
    /\ main = "FileLoader"
    /\ main' = (IF reread THEN "TcpServer" ELSE "load_buffer")
    /\ UNCHANGED <<procVars, config_file, cert, ssl_enabled, shutdowns, closes, envVars, callVars, clientVars,
                   engineVars, connVars, bindVars>>

\* file_loader.load_buffer(): FileLoader has no such method; the
\* AttributeError ends the main thread.
LoadBuffer ==
    /\ main = "load_buffer"
    /\ Exits(UncaughtStatus)
    /\ UNCHANGED <<config_file, cert, ssl_enabled, shutdowns, closes, envVars, callVars, clientVars, engineVars,
                   connVars, bindVars>>

\* A TcpServer.__init__ that logs a failed load_cert_chain and goes on.
LoadCertChain_goes_on ==
    /\ main = "TcpServer"
    /\ main' = "bind_server"
    /\ bpc' = "loop"
    /\ UNCHANGED <<procVars, config_file, cert, ssl_enabled, shutdowns, closes, envVars, callVars, clientVars,
                   engineVars, connVars, retry_mechanism, port, server, err,
                   attempts, drawn, occupied, host_ok, patched, fault, wrapped>>

\* TcpServer.__init__ up to the call of bind_server: load_cert_chain raises
\* FileNotFoundError (caught: sys.exit(-1)) when the material is missing and
\* ssl.SSLError (not caught) when it is invalid.
LoadCertChain ==
    /\ main = "TcpServer"
    /\ CASE cert = "ok" ->
                main' = "bind_server" /\ bpc' = "loop" /\ UNCHANGED procVars
         [] cert = "missing" -> Exits(exit_status(-1)) /\ UNCHANGED bpc
         [] cert = "invalid" -> Exits(UncaughtStatus) /\ UNCHANGED bpc
    /\ UNCHANGED <<config_file, cert, ssl_enabled, shutdowns, closes, envVars, callVars, clientVars, engineVars,
                   connVars, retry_mechanism, port, server, err, attempts,
                   drawn, occupied, host_ok, patched, fault, wrapped>>

\* __main__'s server.run(), after TcpServer.__init__ returned from
\* bind_server: serve_forever() starts the accept loop.
Run ==
    /\ main = "bind_server"
    /\ bpc = "bound"
    /\ main' = "run"
    /\ UNCHANGED <<procVars, config_file, cert, ssl_enabled, shutdowns, closes,
                   envVars, callVars, clientVars, engineVars, connVars, bindVars>>

NextMain ==
    \/ ReadConfig
    \/ NewFileLoader
    \/ LoadBuffer
    \/ LoadCertChain
    \/ BindSucceeds
    \/ BindFails
    \/ BindGivesUp
    \/ Run

SpecMain == InitMain /\ [][NextMain]_vars

\* The main thread goes on running through start-up.
SpecMainFair == SpecMain /\ WF_vars(NextMain)

\* The steps of a start-up in the order of the data flow, a step to "exited"
\* being a start-up that fails.
StartupOrder ==
    {<<"Configuration", "FileLoader">>, <<"FileLoader", "load_buffer">>,
     <<"FileLoader", "TcpServer">>, <<"load_buffer", "TcpServer">>,
     <<"TcpServer", "bind_server">>, <<"bind_server", "run">>}

\* C31: start-up goes through Configuration, engine construction, the bind
\* and the accept loop in this order, and it ends in the accept loop or, with
\* an exit, for one of three reasons only: the configuration did not load,
\* the certificate material did not load, or the bind loop gave up; no step
\* between the engine's construction and the server's construction ends the
\* process, with reread-on-query on or off.
C31_StartupReachesAcceptLoop ==
    /\ [][main' # main =>
             (<<main, main'>> \in StartupOrder \/ main' = "exited")]_vars
    /\ [][(main \in {"FileLoader", "load_buffer"} /\ main' # main)
             => (process' = "running" /\ main' # "exited")]_vars
    /\ [](main = "exited" =>
             (config_file # "ok" \/ cert # "ok" \/ bpc = "exited"))
    /\ [](main = "run" =>
             (config_file = "ok" /\ cert = "ok" /\ bpc = "bound" /\ server # 0))
    /\ <>(main \in {"run", "exited"})

\* C15: no bind attempt is made before the certificate/key pair is loaded,
\* and when loading fails (material missing or invalid) the process ends with
\* a non-zero status without a bind attempt and without a listening socket,
\* then and ever after.
C15_CertificateBeforeBind ==
    /\ [](/\ attempts > 0 => (cert = "ok" /\ main \notin {"Configuration", "FileLoader", "load_buffer", "TcpServer"})
          /\ cert # "ok" => (attempts = 0 /\ server = 0 /\ bpc = "unbound"))
    /\ [][(main = "TcpServer" /\ main' # "TcpServer" /\ cert # "ok")
             => (/\ process' = "exited"
                 /\ status' # 0
                 /\ attempts' = 0
                 /\ server' = 0)]_vars

\* C15's case: construction of the TcpServer ended the process on invalid
\* certificate material.
C15_Witness ==
    /\ cert = "invalid"
    /\ main = "exited"
    /\ process = "exited"
    /\ status = 1
    /\ reread
    /\ config_file = "ok"

\* C26: the listening socket is wrapped by the TLS context exactly when TLS
\* is enabled; with TLS disabled the construction of the TcpServer goes on to
\* the bind step whatever the certificate material is, and the process is
\* not ended by it.
C26_CertificateOnlyWithTls ==
    /\ [](bpc = "bound" => (wrapped <=> ssl_enabled))
    /\ [][(main = "TcpServer" /\ main' # "TcpServer" /\ ~ssl_enabled)
             => (/\ main' = "bind_server"
                 /\ process' = "running")]_vars

\* C20: when the file-path setting or its section is missing, constructing
\* Configuration ends the process with a non-zero status, and start-up never
\* goes on to construct the FileLoader or the TcpServer or to bind.
C20_MissingPathIsFatal ==
    /\ [](config_file # "ok" =>
             /\ main \in {"Configuration", "exited"}
             /\ attempts = 0
             /\ server = 0
             /\ bpc = "unbound")
    /\ [][(main = "Configuration" /\ main' # "Configuration" /\ config_file # "ok")
             => (process' = "exited" /\ status' # 0)]_vars

\* C20's case: the option is missing and the process has exited.
C20_Witness ==
    /\ config_file = "NoOptionError"
    /\ main = "exited"
    /\ process = "exited"
    /\ status = 255

\* ------------------------------------------------------ claims on the bind
\* C8: bind_server makes at most 5 bind attempts; after the 5th failed one
\* the process exits and a 6th is never made.
C8_AtMostFiveAttempts == attempts <= 5

\* C9: when an attempt fails because the address is in use by another
\* listener, a new port is drawn from 1024..65535 for the next attempt.
C9_AddressInUseDrawsPort ==
    [][(/\ attempts' = attempts + 1
        /\ bpc' = "loop"
        /\ err' = AddressInUse)
           => (drawn' = drawn + 1 /\ port' \in MinPort..MaxPort)]_vars

\* bind_server has returned or has ended the process.
BindEnded == bpc \in {"bound", "exited"}

\* C23: whatever the attempts meet, bind_server makes a bounded number of
\* attempts and ends, bound or with the process exited; an attempt that fails
\* for another reason than an address in use (host, permission, missing
\* attribute) adds one to the retry counter and leaves host and port as they
\* were for the next attempt.
C23_BindTerminates ==
    /\ [](/\ attempts <= RetryLimit + 1
          /\ retry_mechanism <= RetryLimit + 1
          /\ attempts \in {retry_mechanism, retry_mechanism + 1}
          /\ bpc = "bound" => (server = port /\ process = "running")
          /\ bpc = "exited" => (server = 0 /\ process = "exited" /\ status # 0))
    /\ [][(/\ attempts' = attempts + 1
            /\ err' \in {NameNotKnown, PermissionDenied, NoAttribute}
            /\ ~BindEnded')
               => (/\ retry_mechanism' = retry_mechanism + 1
                   /\ port' = port
                   /\ host_ok' = host_ok
                   /\ drawn' = drawn)]_vars
    /\ [][BindEnded => UNCHANGED <<attempts, retry_mechanism, port, server>>]_vars
    /\ <>BindEnded

\* C23's case: the listener is bound at the third attempt, after a missing
\* attribute and a refused permission, on the configured port.
C23_Witness ==
    /\ bpc = "bound"
    /\ attempts = 3
    /\ retry_mechanism = 2
    /\ err = PermissionDenied
    /\ server = PORT
    /\ drawn = 0

\* ----------------------------------------------------- claims on the engine
\* p is a line of content f: an LF-delimited segment, trailing CR stripped.
IsLine(p, f) == \E seg \in Range(split(f, LF)) : rstrip(seg, {CR}) = p

\* The step is a check_text call that returned a value.
Returned == calls' = calls + 1 /\ ret'.raised = "none"

\* C2: for a fixed file content (no modification since construction) every
\* call that returns, under any of the five algorithms, returns true when the
\* pattern is a line of the file and false when it is not.
C2_AlgorithmsAgree ==
    (writes = 0 /\ ret.algorithm # "none" /\ ret.raised = "none")
        => (ret.value <=> IsLine(ret.pattern, file))

\* C4: with reread-on-query enabled, every call that returns, under any
\* algorithm, reports exactly whether the pattern is a line of the file as it
\* is at the time of the call (added lines present, removed lines absent).
C4_RereadIsFresh ==
    [][(reread /\ Returned) => (ret'.value <=> IsLine(ret'.pattern, file))]_vars

\* C5: with reread-on-query disabled, a call with a cache-building algorithm
\* returns what the previous call with the same algorithm and pattern
\* returned, whatever happened to the file in between.
C5_RepeatedCallSameResult ==
    [][(/\ ~reread
        /\ Returned
        /\ ret'.algorithm \in CacheAlgorithms
        /\ ret.algorithm = ret'.algorithm
        /\ ret.pattern = ret'.pattern
        /\ ret.raised = "none") => (ret'.value <=> ret.value)]_vars

\* The step is a call that (re)loaded the file into the line cache.
Loaded ==
    /\ Returned
    /\ \/ ret'.algorithm \in {"HIGH_LEVEL", "BRUTE_FORCE"}
       \/ ret'.algorithm = "LOW_LEVEL" /\ (reread \/ ~lru)

\* C10: right after a load, the keys the line cache reports present are the
\* lines of the file just loaded: every such key is an LF-delimited segment of
\* it (CR stripped, no LF inside), and every non-empty line of it is such a
\* key; no line of an earlier file version survives.
C10_CacheIsLastLoad ==
    [][Loaded =>
        /\ \A k \in TrueKeys(loaded_data') :
               IsLine(k, file) /\ LF \notin Range(k)
        /\ \A p \in Patterns : IsLine(p, file) => p \in TrueKeys(loaded_data')
      ]_vars

\* The lines of a text file, each with its terminator (LF or CR LF) removed.
TextLines(f) == [i \in 1..Len(readlines(f)) |-> rstrip(readlines(f)[i], {CR, LF})]

\* f is n distinct non-empty lines, each ended by LF or CR LF, the last one
\* with or without its terminator: no empty line, no CR inside a line.
IsPlainTextFile(f) ==
    /\ \A i \in 1..Len(TextLines(f)) :
           TextLines(f)[i] # <<>> /\ CR \notin Range(TextLines(f)[i])
    /\ Cardinality(Range(TextLines(f))) = Len(TextLines(f))

\* C11: a cache-building strategy that loads a file of n distinct non-empty
\* lines into an empty line cache leaves exactly n keys marked present, one
\* per line with its terminator removed (so the three strategies build the
\* same keys for the same file).
C11_OneKeyPerLine ==
    [][(/\ Returned
        /\ ret'.algorithm \in CacheAlgorithms
        /\ loaded_data = EmptyDict
        /\ IsPlainTextFile(file))
           => (/\ TrueKeys(loaded_data') = Range(TextLines(file))
               /\ Cardinality(TrueKeys(loaded_data')) = Len(TextLines(file)))
      ]_vars

\* C14: a call with a cache-building strategy made while the target file
\* cannot be read never returns a boolean: the process exits with a non-zero
\* status, whichever thread made the call, and the call adds no key to the
\* line cache and memoizes nothing.
C14_UnreadableFileIsFatal ==
    [][(/\ calls' = calls + 1
        /\ ret'.algorithm \in CacheAlgorithms
        /\ ~readable)
           => (/\ ret'.raised # "none"
               /\ process' = "exited"
               /\ status' # 0
               /\ DOMAIN loaded_data' \subseteq DOMAIN loaded_data
               /\ lru' => lru)]_vars

\* The algorithms that keep nothing between calls.
UncachedAlgorithms == {"GREP_SEARCH", "REGEX_SEARCH"}

C25_RegexRaisesOSError ==
    [][(/\ calls' = calls + 1
        /\ ret'.algorithm = "REGEX_SEARCH"
        /\ ~readable)
           => ret'.raised = "OSError"]_vars

\* The engine as the strategy of a call leaves it, before check_text
\* subscripts the dict with the pattern.
strategy_result(e, f, rr, algorithm) ==
    LET c == IF rr THEN clear_file_data_from_memory(e) ELSE e IN
    CASE algorithm = "LOW_LEVEL" -> low_level_search(c, f)
      [] algorithm = "HIGH_LEVEL" -> high_level_search(c, f)
      [] algorithm = "BRUTE_FORCE" -> search_with_brute_force(c, f)

\* C27: answering a query does not change the line cache: when a call with a
\* cache-building strategy returns, the cache holds the keys the strategy
\* left (for a memoized LOW_LEVEL call: the keys it held before the call), so
\* for a file never modified every key is a line that was loaded and the
\* number of keys does not exceed the number of distinct lines.
C27_LookupAddsNoKey ==
    /\ [][(Returned /\ ret'.algorithm \in CacheAlgorithms)
             => DOMAIN loaded_data' =
                    DOMAIN strategy_result([loaded_data |-> loaded_data,
                                            lru |-> lru],
                                           file, reread, ret'.algorithm).loaded_data
          ]_vars
    /\ [](writes = 0 =>
             /\ DOMAIN loaded_data \subseteq mmap_keys(file) \cup brute_force_keys(file)
             /\ Cardinality(DOMAIN loaded_data) <= Cardinality(mmap_keys(file)))

\* C30: a check_text call on a target file that exists, is readable and has
\* zero length returns false, under every algorithm and for every non-empty
\* pattern: it raises nothing, does not answer true, and the process is not
\* asked to exit.
C30_EmptyFileAnswersFalse ==
    [][(/\ calls' = calls + 1
        /\ ret'.algorithm \in SearchAlgorithm
        /\ ret'.pattern # <<>>
        /\ readable
        /\ file = <<>>)
           => (/\ ret'.raised = "none"
               /\ ~ret'.value
               /\ process' = "running")]_vars

\* C17: with reread-on-query disabled, over any sequence of calls each
\* cache-building strategy opens and reads the target file at most once.
C17_CacheBuiltAtMostOnce ==
    ~reread => \A a \in CacheAlgorithms : opens[a] <= 1

\* C21: in every state sequential calls reach, clear_file_data_from_memory
\* leaves the line cache empty and the low-level memo reset; the LOW_LEVEL
\* call that follows a clear opens and reads the file, returns, memoizes, and
\* leaves as the keys marked present exactly the lines of the file as it is.
C21_ClearResetsCacheAndMemo ==
    /\ [](LET c == clear_file_data_from_memory(
                       [loaded_data |-> loaded_data, lru |-> lru])
           IN  c.loaded_data = EmptyDict /\ ~c.lru)
    /\ [](ret.algorithm = "clear" => (loaded_data = EmptyDict /\ ~lru))
    /\ [][(/\ ret.algorithm = "clear"
            /\ calls' = calls + 1
            /\ ret'.algorithm = "LOW_LEVEL")
               => (/\ ret'.raised = "none"
                   /\ opens'["LOW_LEVEL"] = opens["LOW_LEVEL"] + 1
                   /\ lru'
                   /\ TrueKeys(loaded_data') = Range(TextLines(file)))]_vars

\* ------------------------------------- claims on concurrent engine calls
\* The thread has loaded the file (or was handed the memoized dict) and is
\* about to look its pattern up.
AboutToLookUp(t) == tpc[t] = "lookup"

\* C22: with reread-on-query on, nothing keeps one call's clear from running
\* while another call stands between its load and its lookup: the clear can
\* always be taken then, and it leaves the other call about to look its
\* pattern up in a cache that does not hold it; the lookup returns true
\* exactly when it finds the pattern marked present, so that call returns
\* false.
C22_ClearRacesLookup ==
    /\ [](\A t \in Conns : \A u \in Conns \ {t} :
             (AboutToLookUp(t) /\ tpc[u] = "clear") => ENABLED DictClear(u))
    /\ [][\A t \in Conns : \A u \in Conns \ {t} :
             (AboutToLookUp(t) /\ tpc[u] = "clear" /\ tpc'[u] = "cache_clear")
                => (/\ AboutToLookUp(t)'
                    /\ loaded_data' = EmptyDict
                    /\ call'[t] = call[t])]_vars
    /\ [][\A t \in Conns :
             /\ (AboutToLookUp(t) /\ ~AboutToLookUp(t)') =>
                    IF call[t].pattern \in TrueKeys(loaded_data)
                    THEN tpc'[t] = "done" /\ call'[t].value
                    ELSE \/ tpc'[t] = "missing"
                         \/ tpc'[t] = "done" /\ ~call'[t].value
             /\ (tpc[t] = "missing" /\ tpc'[t] # "missing") =>
                    (tpc'[t] = "done" /\ ~call'[t].value)]_vars

\* C22's case: the file was never modified, reread-on-query is on, and a
\* HIGH_LEVEL call has returned false for a pattern that is a line of the
\* file.
C22_Witness ==
    /\ reread
    /\ writes = 0
    /\ tpc[1] = "done"
    /\ call[1].algorithm = "HIGH_LEVEL"
    /\ call[1].raised = "none"
    /\ IsLine(call[1].pattern, file)
    /\ ~call[1].value

\* C28: whatever the interleaving of calls, clears and rewrites of the file,
\* a load stores only segments of the file as it is when the load reads it
\* (LF-delimited, trailing CR stripped), every key the cache marks present
\* was stored by a load, and a call with a cache-building strategy returns
\* true only for a pattern that some load found to be a segment.
C28_NoFalsePositive ==
    /\ [](TrueKeys(loaded_data) \subseteq seen)
    /\ [][\A k \in seen' \ seen : IsLine(k, file)]_vars
    /\ [][\A t \in Conns :
             (tpc[t] # "done" /\ tpc'[t] = "done" /\ call'[t].value)
                => call[t].pattern \in seen]_vars

\* C28's case: the file was rewritten and a call has returned true for a
\* pattern that is no line of the file as it is now, but was one when it
\* was loaded.
C28_Witness ==
    /\ writes = 1
    /\ tpc[1] = "done"
    /\ call[1].value
    /\ ~IsLine(call[1].pattern, file)
    /\ call[1].pattern \in seen

\* What the call alone on a fresh engine gives: the exception raised and the
\* value returned.
sequential(pattern, algorithm) ==
    check_text([loaded_data |-> EmptyDict, lru |-> FALSE], file, FALSE,
               pattern, algorithm)

\* The thread's call ends in this step.
Ends(t) == ~Outside(t) /\ Outside(t)'

\* C29: with reread-on-query off and the file unchanging, however the calls
\* of the threads interleave, every call returns, true if its pattern is a
\* line of the file and false if not, which is how it ends in a sequential
\* execution; no step removes a key of the cache or unmarks one, and a call
\* that is about to look its pattern up finds every line of the file marked
\* present.
C29_InterleavingsAnswerAsSequential ==
    /\ [][~reread =>
             \A t \in Conns :
                Ends(t) =>
                    /\ tpc'[t] = "done"
                    /\ call'[t].value <=> IsLine(call[t].pattern, file)
                    /\ call'[t].raised = sequential(call[t].pattern, call[t].algorithm).raised
                    /\ call'[t].value = sequential(call[t].pattern, call[t].algorithm).value]_vars
    /\ [][~reread => /\ DOMAIN loaded_data \subseteq DOMAIN loaded_data'
                     /\ TrueKeys(loaded_data) \subseteq TrueKeys(loaded_data')]_vars
    /\ [](~reread =>
             \A t \in Conns :
                tpc[t] \in {"lookup", "missing"} =>
                    \A p \in Patterns :
                        IsLine(p, file) => p \in TrueKeys(loaded_data))

\* ----------------------------------------------------- claims on the server
\* C1: the response a handler is about to write for a non-empty trimmed
\* query is "STRING EXISTS\n" if and only if the query is one whole line of
\* the target file; a proper substring of a line is answered
\* "STRING NOT FOUND\n".
C1_ExistsIffWholeLine ==
    \A c \in Conns :
        pc[c] = "send" =>
            (response[c] = STRING_EXISTS <=> IsLine(query[c], file))

C6_PresentLineExistsOnOwnConnection ==
    \A c \in Conns :
        /\ \A i \in 1..Len(out[c]) :
               IsLine(reads[c][i], file) => out[c][i] = STRING_EXISTS
        /\ pc[c] \in {"recv", "closed"} => Len(out[c]) = Len(reads[c])

\* C7: when a handler reads a payload that is only whitespace it writes
\* nothing and keeps reading on the open connection.
C7_EmptyQueryKeepsReading ==
    [][\A c \in Conns :
          (/\ pc[c] = "recv"
           /\ inbuf[c] # <<>>
           /\ strip(Head(inbuf[c])) = <<>>
           /\ inbuf'[c] = Tail(inbuf[c]))
              => (pc'[c] = "recv" /\ out'[c] = out[c])]_vars

\* C12: a socket error on one connection ends that connection's handler and
\* nothing else: the step changes no other connection, the ended handler stays
\* ended, the listener stays bound and the accept loop can still take the next
\* connection, and every connection's written responses are the engine's
\* answers to its queries, one per query once its handler reads again.
C12_SocketErrorConfined ==
    /\ [](/\ bpc = "bound" /\ server = port
          /\ (\E d \in Conns : pc[d] = "idle") => ENABLED (\E d \in Conns : Accept(d))
          /\ \A d \in Conns :
                /\ \A i \in 1..Len(out[d]) :
                       out[d][i] = response_for(search_with_grep(reads[d][i], file))
                /\ pc[d] \in {"recv", "closed"} => Len(out[d]) = Len(reads[d]))
    /\ [][\A c \in Conns :
             /\ (pc[c] # "error" /\ pc'[c] = "error")
                   => \A d \in Conns \ {c} :
                         /\ pc'[d] = pc[d]
                         /\ out'[d] = out[d]
                         /\ inbuf'[d] = inbuf[d]
             /\ pc[c] = "error" => (pc'[c] = "error" /\ out'[c] = out[c])]_vars

\* C12's case: the first connection failed before its response was written
\* and the second connection, still open, has been answered.
C12_Witness ==
    /\ pc[1] = "error"
    /\ Len(reads[1]) = 1 /\ out[1] = <<>>
    /\ pc[2] = "recv"
    /\ Len(out[2]) = 1

\* C13: the handler's check_text call (GREP_SEARCH) returns true exactly when
\* grep ran and a line matched; when grep cannot be invoked or the file cannot
\* be read the call returns false and raises nothing, the handler writes
\* "STRING NOT FOUND\n" and goes back to reading on the same connection, and
\* the process keeps running.
C13_ToolFailureIsNotFound ==
    [][\A c \in Conns :
          /\ (pc[c] = "check" /\ pc'[c] # "check") =>
                /\ pc'[c] = "send"
                /\ Len(found'[c]) = Len(found[c]) + 1
                /\ found'[c][Len(found'[c])] <=>
                       (grep_ok /\ readable /\ search_with_grep(query[c], file))
                /\ (~grep_ok \/ ~readable) => response'[c] = STRING_NOT_FOUND
                /\ process' = "running"
          /\ (pc[c] = "send" /\ pc'[c] \notin {"send", "error"}) =>
                /\ pc'[c] = "recv"
                /\ out'[c] = Append(out[c], response[c])]_vars

\* C13's case: grep is missing, the query is a line of the file, and the
\* connection was answered "STRING NOT FOUND\n" twice and is read again.
C13_Witness ==
    /\ ~grep_ok
    /\ readable
    /\ pc[1] = "recv"
    /\ Len(reads[1]) = 2
    /\ IsLine(reads[1][1], file)
    /\ out[1] = <<STRING_NOT_FOUND, STRING_NOT_FOUND>>

\* C18: when a handler reads a payload that is not valid UTF-8 it writes
\* nothing, keeps the connection open and reads again.
C18_UndecodableKeepsReading ==
    [][\A c \in Conns :
          (/\ pc[c] = "recv"
           /\ inbuf[c] # <<>>
           /\ ~decodable(Head(inbuf[c]))
           /\ inbuf'[c] = Tail(inbuf[c]))
              => (pc'[c] = "recv" /\ out'[c] = out[c])]_vars

\* The handler of the connection has returned.
HandlerReturned(c) == pc[c] \in {"closed", "error", "raised"}

\* Once the peer has closed its side, the handler eventually returns.
ReturnsAfterPeerClose ==
    \A c \in Conns : (pc[c] # "idle" /\ peer_closed[c]) ~> HandlerReturned(c)

\* C19: a handler that has written a response reads again on the same
\* connection; a handler returns only on an empty read after the peer closed
\* its side or on a socket error; and once the peer has closed, the handler
\* eventually returns.
C19_ReturnsOnlyOnCloseOrError ==
    /\ [][\A c \in Conns :
             /\ (pc[c] = "send" /\ pc'[c] # "send") => pc'[c] \in {"recv", "error"}
             /\ (~HandlerReturned(c) /\ HandlerReturned(c)') =>
                    \/ pc'[c] = "error"
                    \/ peer_closed[c] /\ inbuf[c] = <<>>]_vars
    /\ ReturnsAfterPeerClose

\* ----------------------------------------------------- claims on the client
\* The words that end the loop of send_queries.
TerminatingWords == {Quit, Exit}

\* send_queries has ended its loop.
LoopEnded == cpc \in {"finally", "returned", "raised"}

\* C32: whatever the user types, an input that, trimmed, is neither empty nor
\* a terminating word is passed to send exactly once, and one receive follows
\* it before the next input is read; an empty input is never sent; and when
\* send_queries ends, by a terminating word, by a user interrupt or by an
\* error while sending or receiving, the connection has been closed exactly
\* once.
C32_OneSendOneReceiveOneClose ==
    /\ [][inputs' = inputs + 1 =>
             /\ cpc = "input"
             /\ Len(recvd) = Len(sent)
             /\ cpc' = "send" <=> (/\ user_query' # <<>>
                                   /\ lower(user_query') \notin TerminatingWords)
             /\ user_query' = <<>> => cpc' = "input"
             /\ lower(user_query') \in TerminatingWords
                   => (cpc' = "finally" /\ ended' = "break")]_vars
    /\ [][sent' # sent =>
             /\ cpc = "send"
             /\ cpc' = "recv"
             /\ sent' = Append(sent, encode(user_query))
             /\ inbuf'[1] = Append(inbuf[1], encode(user_query))]_vars
    /\ [][(cpc = "send" /\ cpc' # "send") =>
             (Len(sent') = Len(sent) + 1 \/ cpc' = "finally")]_vars
    /\ [][(cpc = "recv" /\ cpc' # "recv") =>
             (Len(recvd') = Len(recvd) + 1 \/ cpc' = "finally")]_vars
    /\ [][recvd' # recvd => (cpc = "recv" /\ Len(recvd') = Len(recvd) + 1)]_vars
    /\ [](/\ Len(recvd) <= Len(sent)
          /\ Len(sent) <= Len(recvd) + 1
          /\ Len(sent) <= inputs
          /\ \A i \in DOMAIN sent : sent[i] # <<>>
          /\ cpc = "input" => Len(recvd) = Len(sent))
    /\ [](/\ LoopEnded <=> ended # "none"
          /\ cpc \in {"returned", "raised"} => conn_closes = 1
          /\ cpc \notin {"returned", "raised"} => conn_closes = 0
          /\ cpc = "returned" <=> (/\ conn_closes = 1
                                   /\ ended \in {"break", "KeyboardInterrupt"}))
    /\ [][conn_closes' # conn_closes => peer_closed'[1]]_vars

\* C32's case: two queries were sent, the first was followed by one receive,
\* receiving after the second raised an error, and send_queries has ended
\* with the connection closed once.
C32_Witness ==
    /\ cpc = "raised"
    /\ ended = "OSError"
    /\ inputs = 2
    /\ Len(sent) = 2
    /\ Len(recvd) = 1
    /\ conn_closes = 1

\* The last element of a non-empty sequence.
Last(s) == s[Len(s)]

\* C33: with the client and the handler of its connection composed, a query
\* the client has sent is answered by exactly one response, which the
\* client's receive returns, unless the connection is closed, and then the
\* receive returns empty: the handler never writes more responses than the
\* client has sent queries, the client never takes more, each receive returns
\* one response or, after the server closed, nothing; the client and the
\* handler never both wait to receive with nothing under way, and a client
\* that waits to receive does not wait forever.
C33_OneResponsePerQuery ==
    /\ [](/\ Len(out[1]) <= Len(sent)
          /\ taken <= Len(sent)
          /\ \A i \in DOMAIN recvd : Len(recvd[i]) <= 1)
    /\ [][recvd' # recvd =>
             IF Last(recvd') = <<>>
             THEN ServerClosed
             ELSE /\ Len(out[1]) = Len(sent)
                  /\ Last(recvd') = <<out[1][Len(sent)]>>]_vars
    /\ [](~(/\ cpc = "recv"
            /\ pc[1] = "recv"
            /\ inbuf[1] = <<>>
            /\ taken = Len(out[1])))
    /\ (cpc = "recv" ~> cpc # "recv")

\* C34: a query that is 'quit' or 'stop' ends the loop of send_queries: it
\* is not passed to send, the loop is left at once, and the connection is
\* closed.
C34_QuitAndStopEndTheLoop ==
    /\ [][(inputs' = inputs + 1 /\ lower(user_query') \in {Quit, Stop})
             => (cpc' = "finally" /\ ended' = "break")]_vars
    /\ [](\A i \in DOMAIN sent :
             \A word \in {Quit, Stop, <<"Q", "U", "I", "T">>} :
                 sent[i] # encode(word))
    /\ [](ended = "break" =>
             (/\ lower(user_query) \in {Quit, Stop}
              /\ cpc = "returned" => conn_closes = 1))

====
